---------------------------- MODULE Spec2Model ----------------------------
(***************************************************************************)
(* ETL SATIAP Home: the run_etl pipeline (src/etl.py) with the stages it   *)
(* calls: load_csv (src/etl/extractor.py), save_to_staging,                *)
(* validate_columns and reorder_columns (src/etl/validator.py),            *)
(* write_to_excel and verify_excel_data (src/etl/loader.py),               *)
(* upload_to_sharepoint and verify_sharepoint_upload                       *)
(* (src/etl/uploader.py).                                                  *)
(*                                                                         *)
(* A dataset is a record whose field columns is the ordered list of column *)
(* labels (df.columns).  Strings are Python strings; lists are sequences.  *)
(***************************************************************************)
EXTENDS Integers, Sequences, FiniteSets, TLC

VARIABLES
    pc,          \* position of the running function
    keep_extra,  \* run_etl's argument (--keep-extra)
    df,          \* the current dataset (df, then df_transformed)
    df_in,       \* what pd.read_csv returned, then the argument of the last
                 \* function applied to the dataset
    executed,    \* the functions run_etl has called so far, in call order
    is_valid,    \* validate_columns' flag
    errors,      \* validate_columns' error list
    result,      \* run_etl's return value: "pending", "True" or "False"
    exit_code,   \* the process exit status set by main, -1 while running
    raised,      \* the exception that ended the run, NoException if none
    warned,      \* exceptions caught and downgraded to a printed warning
    attempts,    \* load_csv's calls of pd.read_csv: encoding and outcome, in order
    file_size,   \* size in bytes of the written spreadsheet
    sent,        \* the HTTP requests issued so far, in order, with their status
    i,           \* chunked_upload's loop variable (byte offset)
    env,         \* what the run finds outside the program: files, settings
    verified     \* what the two verification functions reported

vars == <<pc, keep_extra, df, df_in, executed, is_valid, errors, result,
          exit_code, raised, warned, attempts, file_size, sent, i, env,
          verified>>

-----------------------------------------------------------------------------
(* Python list helpers *)

Range(s) == {s[k] : k \in DOMAIN s}

\* c in lst
In(c, lst) == c \in Range(lst)

\* [c for c in lst if c not in other]
NotIn(lst, other) == SelectSeq(lst, LAMBDA c : ~In(c, other))

\* [c for c in lst if c in other]
OnlyIn(lst, other) == SelectSeq(lst, LAMBDA c : In(c, other))

\* ', '.join(repr(c) for c in lst), for labels that hold no quote character
RECURSIVE ReprItems(_)
ReprItems(lst) ==
    IF lst = <<>> THEN ""
    ELSE IF Len(lst) = 1 THEN "'" \o lst[1] \o "'"
    ELSE LET half == Len(lst) \div 2
         IN  ReprItems(SubSeq(lst, 1, half)) \o ", "
             \o ReprItems(SubSeq(lst, half + 1, Len(lst)))

\* f"{lst}" for a list of strings
FormatList(lst) == "[" \o ReprItems(lst) \o "]"

-----------------------------------------------------------------------------
(* src/config/settings.py *)

EXPECTED_COLUMNS == <<
    "Respondent ID", "Collector ID", "Start Date", "End Date", "IP Address",
    "Nan ki depatman lopital / sant sante a ye ?",
    "Nan ki lopital oubyen sant sante ou konn ale nan depatmant atibonit ?",
    "Nan ki lopital oubyen sant sante ou konn ale nan depatman sant?",
    "Nan ki lopital oubyen sant sante ou konn ale nan depatman grandans?",
    "Nan ki lopital oubyen sant sante ou konn ale nan depatman nip?",
    "Nan ki lopital oubyen sant sante ou konn ale nan depatman nò?",
    "Nan ki lopital oubyen sant sante ou konn ale nan depatman nòdès?",
    "Nan ki lopital oubyen sant sante ou konn ale nan depatman nòdwès?",
    "Nan ki lopital oubyen sant sante ou konn ale nan depatman wès?",
    "Nan ki lopital oubyen sant sante ou konn ale nan depatman sid?",
    "Nan ki lopital oubyen sant sante ou konn ale nan depatman sidès?",
    "Antre kòd ST?",
    "Dat dènye vizit ou nan sant sante a oubyen lopital la ?",
    "Kòman ou tap note sèvis ou resevwa nan sant sante a oubyen lopital la jeneralman ?",
    "De kisa ou satisfè nan sant sante a oubyen lopital la?",
    "Unnamed: 32", "Unnamed: 33", "Unnamed: 34", "Unnamed: 35",
    "Kòmantè ou .",
    "Kòman ou tap note pwòprete nan sant sante a oubyen lopital la?",
    "Kòman ou tap note akèy nan sant sante a oubyen lopital la?",
    "Kòman ou tap note sèvis pèsonèl yo bay nan sant sante a oubyen lopital la jeneralman ?",
    "Kòman ou tap note tan ou fè ap tann nan sant sante a oubyen lopital la jeneralman ?",
    "Eske moun yo mal gade ou nan sant sante a oubyen lopital la jeneralman ?",
    "Ki moun ki mal gade w nan sant sante oubyen lopital la ?",
    "Kòmantè ou sou sant sante a oubyen lopital la.",
    "Ki pèsonèl ou pa satisfè de sèvis li ?",
    "Unnamed: 53", "Unnamed: 54", "Unnamed: 55", "Unnamed: 56",
    "Kòmantè e sigjesyon ou sou sèvis ou jwenn?",
    "Kòman ou tap note sèvis Doktè yo bay nan sant sante a oubyen lopital la jeneralman ?",
    "Kòman ou tap note sèvis Enfimyè yo bay nan sant sante a oubyen lopital la jeneralman ?",
    "Kòman ou tap note sèvis Famasyen yo bay nan sant sante a oubyen lopital la jeneralman ?",
    "Kòman ou tap note sèvis Sikològ / travayè sosyalyo bay nan sant sante a oubyen lopital la jeneralman ?",
    "Kòman ou tap note sèvis Laboratwa yo bay nan sant sante a oubyen lopital la jeneralman ?",
    "Pou ki sèvis ou bay enfòmasyon sa yo ",
    "Unnamed: 22", "Unnamed: 23", "Unnamed: 24", "Unnamed: 25", "Unnamed: 26",
    "Ki moun ki mal gade w nan sant sante oubyen lopital la ?",
    "Unnamed: 43", "Unnamed: 44", "Unnamed: 45", "Unnamed: 46", "Unnamed: 47", "Unnamed: 48", "Unnamed: 49", "Unnamed: 50",
    "Hospital_Combined",
    "Satisfaction_Combined",
    "Dissatisfaction_Combined",
    "Mistreatment_Combined"
>>

-----------------------------------------------------------------------------
(* src/etl/validator.py *)

\* a validation that also reports a different column order as an error
validate_errors_with_order(d) ==
    LET current_columns == d.columns
        missing_columns == NotIn(EXPECTED_COLUMNS, current_columns)
        extra_columns   == NotIn(current_columns, EXPECTED_COLUMNS)
    IN  (IF missing_columns # <<>>
         THEN <<"Missing columns: " \o FormatList(missing_columns)>>
         ELSE <<>>)
        \o
        (IF extra_columns # <<>>
         THEN <<"Unexpected columns found: " \o FormatList(extra_columns)>>
         ELSE <<>>)
        \o
        (IF current_columns # EXPECTED_COLUMNS
         THEN <<"Column order differs from expected schema">>
         ELSE <<>>)

\* a validation that reports both directions in one entry
validate_errors_merged(d) ==
    LET current_columns == d.columns
        missing_columns == NotIn(EXPECTED_COLUMNS, current_columns)
        extra_columns   == NotIn(current_columns, EXPECTED_COLUMNS)
    IN  IF missing_columns \o extra_columns # <<>>
        THEN <<"Missing columns: " \o FormatList(missing_columns \o extra_columns)>>
        ELSE <<>>

\* the list validate_columns builds before it returns
validate_errors(d) ==
    LET current_columns == d.columns
        missing_columns == NotIn(EXPECTED_COLUMNS, current_columns)
        extra_columns   == NotIn(current_columns, EXPECTED_COLUMNS)
    IN  (IF missing_columns # <<>>
         THEN <<"Missing columns: " \o FormatList(missing_columns)>>
         ELSE <<>>)
        \o
        (IF extra_columns # <<>>
         THEN <<"Unexpected columns found: " \o FormatList(extra_columns)>>
         ELSE <<>>)

\* validate_columns(df) -> (is_valid, errors)
validate_columns(d) ==
    LET errs == validate_errors(d)
    IN  IF errs # <<>>
        THEN [is_valid |-> FALSE, errors |-> errs]
        ELSE [is_valid |-> TRUE, errors |-> <<>>]

\* a missing value (NaN / None)
NaN == [t |-> "nan", s |-> "nan"]

\* a text cell
Str(s) == [t |-> "str", s |-> s]

\* a numeric cell, held with the text str() gives for it
Num(s) == [t |-> "num", s |-> s]

\* len(df)
NRows(d) == Len(d.index)

\* the positions at which the boolean mask holds, in increasing order
Where(mask) ==
    LET RECURSIVE from(_, _)
        from(lo, hi) ==
            IF lo > hi THEN <<>>
            ELSE IF lo = hi THEN (IF mask[lo] THEN <<lo>> ELSE <<>>)
            ELSE LET mid == (lo + hi) \div 2
                 IN  from(lo, mid) \o from(mid + 1, hi)
    IN  from(1, Len(mask))

\* a selection that puts the labels in the new order and leaves the values
\* where they were
Select_relabels(d, positions) ==
    [columns |-> [k \in DOMAIN positions |-> d.columns[positions[k]]],
     index   |-> d.index,
     data    |-> [k \in DOMAIN positions |->
                    d.data[IF k \in DOMAIN d.data THEN k ELSE positions[k]]]]

\* df.iloc[:, positions]: the columns at the given positions, rows unchanged
Select(d, positions) ==
    [columns |-> [k \in DOMAIN positions |-> d.columns[positions[k]]],
     index   |-> d.index,
     data    |-> [k \in DOMAIN positions |-> d.data[positions[k]]]]

\* df.iloc[rows]: the rows at the given positions of the index, columns unchanged
SelectRows(d, rows) ==
    [columns |-> d.columns,
     index   |-> [r \in DOMAIN rows |-> d.index[rows[r]]],
     data    |-> [k \in DOMAIN d.data |->
                    [r \in DOMAIN rows |-> d.data[k][rows[r]]]]]

\* the positions df[new_order] selects: for each listed label in turn, every
\* position of df.columns that holds it
RECURSIVE Locs(_, _)
Locs(d, new_order) ==
    IF new_order = <<>> THEN <<>>
    ELSE IF Len(new_order) = 1
    THEN Where([k \in DOMAIN d.columns |-> d.columns[k] = new_order[1]])
    ELSE LET half == Len(new_order) \div 2
         IN  Locs(d, SubSeq(new_order, 1, half))
             \o Locs(d, SubSeq(new_order, half + 1, Len(new_order)))

\* df[new_order]: one output column per occurrence of each listed label in df
Take(d, new_order) == Select(d, Locs(d, new_order))

\* a reordering that keeps the expected columns in the order the dataset has them
reorder_columns_dataset_order(d, expected_columns, keep) ==
    LET expected  == IF expected_columns # <<>> THEN expected_columns
                     ELSE EXPECTED_COLUMNS
        aligned   == OnlyIn(d.columns, expected)
        extras    == NotIn(d.columns, expected)
        new_order == aligned \o (IF keep THEN extras ELSE <<>>)
    IN  Take(d, new_order)

\* reorder_columns(df, expected_columns, keep_extra)
reorder_columns(d, expected_columns, keep) ==
    LET expected  == IF expected_columns # <<>> THEN expected_columns
                     ELSE EXPECTED_COLUMNS
        aligned   == OnlyIn(expected, d.columns)
        extras    == NotIn(d.columns, expected)
        new_order == aligned \o (IF keep THEN extras ELSE <<>>)
    IN  Take(d, new_order)

-----------------------------------------------------------------------------
(* Python str helpers *)

\* sub in s
Contains(s, sub) ==
    \E k \in 1..(Len(s) - Len(sub) + 1) : SubSeq(s, k, k + Len(sub) - 1) = sub

UpperLetters == "ABCDEFGHIJKLMNOPQRSTUVWXYZ"
LowerLetters == "abcdefghijklmnopqrstuvwxyz"

\* ch.lower() for one character; only ASCII capitals occur in the labels
LowerMap ==
    [ch \in {SubSeq(UpperLetters, k, k) : k \in 1..Len(UpperLetters)} |->
        LET k == CHOOSE k \in 1..Len(UpperLetters) : SubSeq(UpperLetters, k, k) = ch
        IN  SubSeq(LowerLetters, k, k)]

LowerChar(ch) == IF ch \in DOMAIN LowerMap THEN LowerMap[ch] ELSE ch

\* s.lower()
RECURSIVE Lower(_)
Lower(s) ==
    IF Len(s) = 0 THEN ""
    ELSE IF Len(s) = 1 THEN LowerChar(s)
    ELSE LET half == Len(s) \div 2
         IN  Lower(SubSeq(s, 1, half)) \o Lower(SubSeq(s, half + 1, Len(s)))

-----------------------------------------------------------------------------
(* src/config/settings.py *)

COLUMNS_TO_REMOVE ==
    <<"Email Address", "First Name", "Last Name", "Custom Data 1", "language">>

\* RATING_MAPPINGS.items(), in declaration order
RATING_MAPPINGS ==
    <<<<"Trè byen", "5 Etwal">>,
      <<"Byen", "4 Etwal">>,
      <<"Pasab", "3 Etwal">>,
      <<"Pa bon", "2 Etwal">>,
      <<"Pat bon ditou", "1 Etwal">>,
      <<"Trè long", "Trè long">>,
      <<"Long", "Long">>,
      <<"Kout", "Kout">>,
      <<"Trè kout", "Trè kout">>,
      <<"Pa ditou", "Pa ditou">>,
      <<"Trè raman", "Trè raman">>,
      <<"raman", "raman">>,
      <<"Pa souvan", "Pa souvan">>,
      <<"Souvan", "Souvan">>>>

\* TEXT_STANDARDIZATION.items(), in declaration order
TEXT_STANDARDIZATION ==
    <<<<"Enfimyè", "Enfimyè">>,
      <<"Miss", "Miss">>>>

\* ENCODING_FIXES.items(), in declaration order
ENCODING_FIXES ==
    <<<<"Ã´", "ô">>,
      <<"Ã©", "é">>,
      <<"Ã¨", "è">>,
      <<"Ã ", "à">>,
      <<"Ã®", "î">>,
      <<"Ã§", "ç">>,
      <<"Ã»", "û">>,
      <<"Ã¢", "â">>,
      <<"Ã«", "ë">>,
      <<"Ã¯", "ï">>,
      <<"Ã¼", "ü">>,
      <<"Ã¶", "ö">>>>

-----------------------------------------------------------------------------
(* src/etl/transformer.py *)

Whitespace == {" ", "\t", "\n", "\r"}

\* s.strip()
Strip(s) ==
    LET solid == {k \in 1..Len(s) : SubSeq(s, k, k) \notin Whitespace}
    IN  IF solid = {} THEN ""
        ELSE SubSeq(s, CHOOSE k \in solid : \A j \in solid : k <= j,
                       CHOOSE k \in solid : \A j \in solid : j <= k)

\* s.find(sub) + 1: the first position where sub occurs in s, 0 if none
Find(s, sub) ==
    LET at == {k \in 1..(Len(s) - Len(sub) + 1) :
                 SubSeq(s, k, k + Len(sub) - 1) = sub}
    IN  IF at = {} THEN 0 ELSE CHOOSE k \in at : \A j \in at : k <= j

\* s.replace(old, new, 1): the leftmost occurrence only
Replace_first(s, old, new) ==
    LET k == Find(s, old)
    IN  IF k = 0 THEN s
        ELSE SubSeq(s, 1, k - 1) \o new \o SubSeq(s, k + Len(old), Len(s))

\* s.replace(old, new) for a non-empty old: leftmost occurrences, no overlap
RECURSIVE Replace(_, _, _)
Replace(s, old, new) ==
    LET k == Find(s, old)
    IN  IF k = 0 THEN s
        ELSE SubSeq(s, 1, k - 1) \o new
             \o Replace(SubSeq(s, k + Len(old), Len(s)), old, new)

\* sep.join(items)
RECURSIVE Join(_, _)
Join(items, sep) ==
    IF items = <<>> THEN ""
    ELSE IF Len(items) = 1 THEN items[1]
    ELSE items[1] \o sep \o Join(Tail(items), sep)

\* series.astype(str): every cell becomes its text, a missing value 'nan'
astype_str(col) == [r \in DOMAIN col |-> Str(col[r].s)]

\* series.dtype == 'object': the column holds text
is_object(col) == \E r \in DOMAIN col : col[r].t = "str"

\* series.isna().all()
isna_all(col) == \A r \in DOMAIN col : col[r].t = "nan"

\* (series.astype(str).str.strip() == '').all()
blank_all(col) == \A r \in DOMAIN col : Strip(astype_str(col)[r].s) = ""

\* df.drop(columns=labels)
drop(d, labels) ==
    Select(d, Where([k \in DOMAIN d.columns |-> d.columns[k] \notin labels]))

\* df.columns[start:stop] with 0-based start, exclusive stop <= len
Slice(lst, start, stop) == SubSeq(lst, start + 1, stop)

\* other_cols = [col for col in df.columns if col not in block]
\* df = df[other_cols + block]
move_block_to_end(d, start, stop) ==
    LET block      == Slice(d.columns, start, stop)
        other_cols == NotIn(d.columns, block)
    IN  Take(d, other_cols \o block)

\* 1. delete column AC (index 28)
vba_delete_ac(d) ==
    IF Len(d.columns) > 28 THEN drop(d, {d.columns[28 + 1]}) ELSE d

\* a first relocation whose block includes position 27
vba_move_v_aa_inclusive(d) ==
    IF Len(d.columns) > 27 THEN move_block_to_end(d, 21, 28) ELSE d

\* 2. move block V:AA (columns 21-26) to the end
vba_move_v_aa(d) ==
    IF Len(d.columns) > 26 /\ Len(d.columns) >= 27
    THEN move_block_to_end(d, 21, 27) ELSE d

\* 3. move block AJ:AR (columns 35-43) to the end
vba_move_aj_ar(d) ==
    IF Len(d.columns) > 43 /\ Len(d.columns) >= 44
    THEN move_block_to_end(d, 35, 44) ELSE d

\* df.columns.get_loc(label) + 1 for a label that occurs once
Loc(lst, label) == CHOOSE k \in DOMAIN lst : lst[k] = label

\* empty_cols: the labels of the columns that are all NaN or all blank text
empty_cols(d) ==
    {d.columns[k] : k \in {k \in DOMAIN d.columns :
                             isna_all(d.data[k]) \/ blank_all(d.data[k])}}

\* 4. remove the columns found entirely empty
vba_remove_empty(d) == drop(d, empty_cols(d))

\* 5. df.insert(au_index + 1, 'AV', np.nan); pandas refuses a label that exists
vba_insert_av_raises(d) == In("AU", d.columns) /\ In("AV", d.columns)

vba_insert_av(d) ==
    IF In("AU", d.columns)
    THEN LET au == Loc(d.columns, "AU")
         IN  [d EXCEPT
                !.columns = SubSeq(@, 1, au) \o <<"AV">> \o SubSeq(@, au + 1, Len(@)),
                !.data    = SubSeq(@, 1, au) \o <<[r \in DOMAIN d.index |-> NaN]>>
                            \o SubSeq(@, au + 1, Len(@))]
    ELSE d

\* 6. df['AV'] = df['V']; df = df.drop(columns=['V'])
vba_move_v_to_av(d) ==
    IF In("V", d.columns) /\ In("AV", d.columns)
    THEN drop([d EXCEPT !.data[Loc(d.columns, "AV")] = d.data[Loc(d.columns, "V")]],
              {"V"})
    ELSE d

\* 7. df.rename(columns=rename_map)
vba_rename(d) ==
    [d EXCEPT !.columns =
        [k \in DOMAIN @ |->
            CASE @[k] = "AH" -> "AH_Renamed"
              [] @[k] = "AO" -> "AO_Renamed"
              [] @[k] = "AT" -> "AT_Renamed"
              [] OTHER -> @[k]]]

\* apply_vba_transformations(df), once the insert is known not to raise
apply_vba_transformations(d) ==
    vba_rename(vba_move_v_to_av(vba_insert_av(
        vba_remove_empty(vba_move_aj_ar(vba_move_v_aa(vba_delete_ac(d)))))))

\* whether apply_vba_transformations raises (ValueError from df.insert)
apply_vba_raises(d) ==
    vba_insert_av_raises(
        vba_remove_empty(vba_move_aj_ar(vba_move_v_aa(vba_delete_ac(d)))))

\* labels of the four question groups, of several of them, and of none
GroupLabels ==
    <<"Nan ki lopital ou te ale ?", "Ki LOPITAL ?", "lopital 3", "Lopital 4",
      "De kisa ou satisfè ?", "Ki sa ou pa satisfè ?", "Ki moun ki mal gade w ?",
      "Respondent ID">>

\* the labels that occur in the layouts explored
Labels ==
    Range(EXPECTED_COLUMNS) \cup Range(COLUMNS_TO_REMOVE)
    \cup {"Unnamed: 28", "Kòmantè", "AU", "AV", "V", "AH", "AH_Renamed"}
    \cup Range(GroupLabels)

is_hospital_col(col) ==
    Contains(Lower(col), "lopital") \/ Contains(col, "Nan ki lopital")

is_satisfaction_col(col) ==
    Contains(Lower(col), "satisfè") \/ Contains(Lower(col), "satisfe")

is_dissatisfaction_col(col) ==
    Contains(Lower(col), "pa satisfè") \/ Contains(Lower(col), "pa satisfe")

is_mistreatment_col(col) == Contains(Lower(col), "mal gade")

\* the four tests, evaluated once for every label of Labels
HospitalLabels        == {col \in Labels : is_hospital_col(col)}
SatisfactionLabels    == {col \in Labels : is_satisfaction_col(col)}
DissatisfactionLabels == {col \in Labels : is_dissatisfaction_col(col)}
MistreatmentLabels    == {col \in Labels : is_mistreatment_col(col)}

\* test, looked up for a label of Labels and evaluated for any other
Looked(col, table, test) == IF col \in Labels THEN col \in table ELSE test

hospital_cols(d) ==
    SelectSeq(d.columns, LAMBDA col :
        Looked(col, HospitalLabels, is_hospital_col(col)))

satisfaction_cols(d) ==
    SelectSeq(d.columns, LAMBDA col :
        Looked(col, SatisfactionLabels, is_satisfaction_col(col)))

dissatisfaction_cols(d) ==
    SelectSeq(d.columns, LAMBDA col :
        Looked(col, DissatisfactionLabels, is_dissatisfaction_col(col)))

mistreatment_cols(d) ==
    SelectSeq(d.columns, LAMBDA col :
        Looked(col, MistreatmentLabels, is_mistreatment_col(col)))

\* df[label] = values: an existing column is overwritten in place, a new
\* label is appended
assign(d, label, values) ==
    IF In(label, d.columns)
    THEN [d EXCEPT !.data[Loc(d.columns, label)] = values]
    ELSE [d EXCEPT !.columns = Append(@, label), !.data = Append(@, values)]

\* '; '.join(row.astype(str)): the null cells of the row are not dropped
joined_row_keeps_null(d, cols, r) ==
    LET row == [k \in DOMAIN cols |-> d.data[Loc(d.columns, cols[k])][r]]
    IN  Str(Join([k \in DOMAIN row |-> row[k].s], "; "))

\* '; '.join(row.dropna().astype(str)) for the row r of df[cols]
joined_row(d, cols, r) ==
    LET row   == [k \in DOMAIN cols |-> d.data[Loc(d.columns, cols[k])][r]]
        kept  == SelectSeq(row, LAMBDA cell : cell.t # "nan")
    IN  Str(Join([k \in DOMAIN kept |-> kept[k].s], "; "))

\* if cols: df[label] = df[cols].apply(lambda row: ..., axis=1)
combine(d, cols, label) ==
    IF cols # <<>>
    THEN assign(d, label, [r \in DOMAIN d.index |-> joined_row(d, cols, r)])
    ELSE d

\* 6. filter Respondent ID: df[notna()], then df[astype(str).str.strip() != '']
filter_respondent_id(d) ==
    IF In("Respondent ID", d.columns)
    THEN LET k  == Loc(d.columns, "Respondent ID")
             d1 == SelectRows(d, Where([r \in DOMAIN d.index |->
                                           d.data[k][r].t # "nan"]))
         IN  SelectRows(d1, Where([r \in DOMAIN d1.index |->
                                      Strip(d1.data[k][r].s) # ""]))
    ELSE d

\* 7. remove unwanted columns
remove_unwanted(d) ==
    drop(d, Range(OnlyIn(COLUMNS_TO_REMOVE, d.columns)))

\* for original, replacement in mappings.items():
\*     df[col] = df[col].astype(str).str.replace(original, replacement, regex=False)
RECURSIVE replace_all(_, _)
replace_all(col, mappings) ==
    IF mappings = <<>> THEN col
    ELSE replace_all(
           [r \in DOMAIN col |->
              Str(Replace(col[r].s, mappings[1][1], mappings[1][2]))],
           Tail(mappings))

\* for col in df.columns: if df[col].dtype == 'object': ...
map_object_columns(d, mappings) ==
    [d EXCEPT !.data =
        [k \in DOMAIN @ |->
            IF is_object(@[k]) THEN replace_all(@[k], mappings) ELSE @[k]]]

\* apply_rating_mappings(df)
apply_rating_mappings(d) == map_object_columns(d, RATING_MAPPINGS)

\* apply_text_standardization(df)
apply_text_standardization(d) == map_object_columns(d, TEXT_STANDARDIZATION)

\* apply_power_query_transformations(df)
apply_power_query_transformations(d) ==
    LET d1 == combine(d, hospital_cols(d), "Hospital_Combined")
        d2 == combine(d1, satisfaction_cols(d1), "Satisfaction_Combined")
        d3 == combine(d2, dissatisfaction_cols(d2), "Dissatisfaction_Combined")
        d4 == combine(d3, mistreatment_cols(d3), "Mistreatment_Combined")
    IN  apply_text_standardization(apply_rating_mappings(
            remove_unwanted(filter_respondent_id(d4))))

\* transform(df)
transform(d) ==
    apply_power_query_transformations(apply_vba_transformations(d))

-----------------------------------------------------------------------------
(* The source layouts explored *)

\* how many expected columns a layout may lack at once
MaxMissing == 2
\* how many foreign columns a layout may carry at once
MaxExtras == 2

\* lst without repeated labels, first occurrences kept
Unique(lst) ==
    LET first == {k \in DOMAIN lst : \A j \in 1..(k - 1) : lst[j] # lst[k]}
        nth(n) == CHOOSE k \in first : Cardinality({j \in first : j < k}) = n - 1
    IN  [n \in 1..Cardinality(first) |-> lst[nth(n)]]

Reverse(lst) == [k \in DOMAIN lst |-> lst[Len(lst) + 1 - k]]

Orders == {"schema", "reversed", "rotated", "swapped"}

Ordered(o, lst) ==
    CASE o = "schema"   -> lst
      [] o = "reversed" -> Reverse(lst)
      [] o = "rotated"  -> IF lst = <<>> THEN lst ELSE Append(Tail(lst), Head(lst))
      [] o = "swapped"  -> IF Len(lst) < 2 THEN lst
                           ELSE <<lst[2], lst[1]>> \o SubSeq(lst, 3, Len(lst))

MissingCandidates ==
    {"Respondent ID", "Ki moun ki mal gade w nan sant sante oubyen lopital la ?",
     "Unnamed: 50"}

ExtraCandidates == {"Email Address", "AU", "Kòmantè"}

\* the lists without repetition over S, of length at most n
RECURSIVE Arrangements(_, _)
Arrangements(S, n) ==
    IF n = 0 THEN {<<>>}
    ELSE LET shorter == Arrangements(S, n - 1)
         IN  shorter \cup
             UNION {{Append(a, x) : x \in S \ Range(a)} : a \in shorter}

\* base with some candidates missing, in some order, with foreign columns
\* put before and after it
Layouts(base) ==
    UNION {
      { SubSeq(e, 1, cut)
          \o Ordered(o, SelectSeq(base, LAMBDA c : c \notin m))
          \o SubSeq(e, cut + 1, Len(e)) :
            o \in Orders,
            m \in {m \in SUBSET MissingCandidates : Cardinality(m) <= MaxMissing},
            cut \in 0..Len(e) } :
      e \in Arrangements(ExtraCandidates, MaxExtras) }

Combined ==
    {"Hospital_Combined", "Satisfaction_Combined", "Dissatisfaction_Combined",
     "Mistreatment_Combined"}

\* a source layout the pipeline accepts: every expected question column, and
\* one more column at index 28, which the positional phase deletes
BaseSource ==
    LET questions == SelectSeq(Unique(EXPECTED_COLUMNS), LAMBDA c : c \notin Combined)
    IN  SubSeq(questions, 1, 28) \o <<"Unnamed: 28">>
        \o SubSeq(questions, 29, Len(questions))

\* the layouts of the source file explored
SourceLayouts ==
    { BaseSource,
      Ordered("swapped", BaseSource),
      Ordered("reversed", BaseSource),
      SelectSeq(BaseSource, LAMBDA c : c # "Respondent ID"),
      SubSeq(BaseSource, 1, 3),
      BaseSource \o <<"Email Address">>,
      BaseSource \o <<"Kòmantè">>,
      <<"Kòmantè">> \o BaseSource,
      BaseSource \o <<"AU">>,
      BaseSource \o <<"V", "AU", "AH">>,
      BaseSource \o <<"AU", "AV">> }

\* a dataset of one row with the given labels: the cell of the k-th column
\* holds the text 'c<k>'
Frame(labels) ==
    [columns |-> labels,
     index   |-> <<0>>,
     data    |-> [k \in DOMAIN labels |-> <<Str("c" \o ToString(k))>>]]

\* d with no value in the columns whose label is in empty
Blanked(d, empty) ==
    [d EXCEPT !.data =
        [k \in DOMAIN @ |->
            IF d.columns[k] \in empty THEN [r \in DOMAIN d.index |-> NaN]
            ELSE @[k]]]

\* the columns a source may hold no value in
EmptyCandidates == {"Unnamed: 49", "Kòmantè"}

\* what pd.read_csv returns for a column of three identifiers: numbers make a
\* float column and text an object column; a blank field is read as NaN and
\* a field of spaces as the text it is
Identifiers(kind, blank) ==
    [r \in 1..3 |->
        IF r = blank
        THEN (IF kind = "spaces" THEN Str("  ") ELSE NaN)
        ELSE (IF kind = "numeric" THEN Num(ToString(100 + r) \o ".0")
              ELSE Str("R-" \o ToString(r)))]

\* three-row sources with a 'Respondent ID' column: numeric or text
\* identifiers, none of them blank (blank = 0) or one of them
RespondentFixtures ==
    {[columns |-> <<"Respondent ID", "Collector ID">>,
      index   |-> <<0, 1, 2>>,
      data    |-> <<Identifiers(kind, blank),
                    [r \in 1..3 |-> Str("c" \o ToString(r))]>>] :
        kind \in {"numeric", "text", "spaces"}, blank \in 0..3}

\* the datasets pd.read_csv may return
SourceDatasets ==
    {Blanked(Frame(l), empty) : l \in SourceLayouts,
                                empty \in SUBSET EmptyCandidates}
    \cup RespondentFixtures

\* d with a second row, whose cells hold the text of the first row's and a '*'
TwoRows(d) ==
    [d EXCEPT !.index = <<0, 1>>,
              !.data  = [k \in DOMAIN @ |-> <<@[k][1], Str(@[k][1].s \o "*")>>]]

\* the datasets handed to validate_columns and reorder_columns on their own
Datasets ==
    {Frame(l) : l \in Layouts(Unique(EXPECTED_COLUMNS))}
    \cup {TwoRows(Frame(Ordered(o, Unique(EXPECTED_COLUMNS)))) : o \in Orders}

-----------------------------------------------------------------------------
(* src/etl.py: run_etl and main; src/etl/extractor.py: load_csv *)

NoException == [by |-> "", exc |-> "None"]
NoDataset == [columns |-> <<>>, index |-> <<>>, data |-> <<>>]

\* neither verification function has reported yet
NotVerified ==
    [excel      |-> [said |-> "", rows |-> -1, columns |-> -1],
     sharepoint |-> "None"]

\* what pd.read_csv may do with one encoding
ReadOutcomes == {"ok", "UnicodeDecodeError", "EmptyDataError"}

\* the call of a function by run_etl
Call(name) == executed' = Append(executed, name)

\* an exception leaves the function `by`: except FileNotFoundError or
\* except Exception in run_etl, which both return False
Raise(by, exc) ==
    /\ raised' = [by |-> by, exc |-> exc]
    /\ result' = "False"
    /\ pc' = "returned"

\* the function returns and run_etl goes on at `next`
Continue(next) ==
    /\ pc' = next
    /\ UNCHANGED <<raised, result>>

\* what pd.read_excel finds when verify_excel_data re-reads the spreadsheet:
\* the sheet as written, a sheet that has changed since, or no readable file
Rereads == {"written", "changed", "unreadable"}

\* what a run may find outside the program: whether CSV_PATH, the data
\* directory and the directory of EXCEL_OUTPUT exist (both paths lie under
\* the data directory), whether SHAREPOINT_SITE and ACCESS_TOKEN differ from
\* their placeholders, and what the spreadsheet holds when it is re-read
Environments ==
    {e \in [csv : BOOLEAN, data_dir : BOOLEAN, output_dir : BOOLEAN,
            site : BOOLEAN, token : BOOLEAN, excel : Rereads] :
        /\ e.csv => e.data_dir
        /\ e.output_dir => e.data_dir}

\* the environments explored with every source dataset: the directories
\* exist, SharePoint is configured or left as shipped, the file stays as written
RunEnvironments ==
    {e \in Environments :
        e.data_dir /\ e.output_dir /\ e.site = e.token /\ e.excel = "written"}

\* the environment in which validate_settings finds nothing to report
Configured ==
    [csv |-> TRUE, data_dir |-> TRUE, output_dir |-> TRUE, site |-> TRUE,
     token |-> TRUE, excel |-> "written"]

\* validate_settings(): the errors it collects, in the order of its checks
validate_settings(e) ==
    (IF ~e.csv THEN <<"CSV file not found">> ELSE <<>>)
    \o (IF ~e.data_dir THEN <<"Data directory not found">> ELSE <<>>)
    \o (IF ~e.output_dir THEN <<"Output directory not found">> ELSE <<>>)
    \o (IF ~e.site THEN <<"SHAREPOINT_SITE must be configured">> ELSE <<>>)
    \o (IF ~e.token THEN <<"ACCESS_TOKEN must be configured">> ELSE <<>>)

\* a Step 0 whose ValueError is not caught: it ends the run
ValidateSettings_Halts ==
    /\ pc = "run_etl"
    /\ Call("validate_settings")
    /\ IF validate_settings(env) = <<>>
       THEN Continue("load_csv")
       ELSE Raise("validate_settings", "ValueError")
    /\ UNCHANGED <<env, verified, keep_extra, df, df_in, is_valid, errors, exit_code,
                   warned, attempts, file_size, sent, i>>

\* Step 0: validate_settings() raises ValueError if it collected an error;
\* run_etl catches it, prints the warning and continues
ValidateSettings ==
    /\ pc = "run_etl"
    /\ Call("validate_settings")
    /\ warned' = IF validate_settings(env) = <<>> THEN warned
                 ELSE Append(warned, [by |-> "validate_settings", exc |-> "ValueError"])
    /\ pc' = "load_csv"
    /\ UNCHANGED <<env, verified, keep_extra, df, df_in, is_valid, errors, result, exit_code,
                   raised, attempts, file_size, sent, i>>

\* Step 1: load_csv(), up to its existence check
LoadCsv ==
    /\ pc = "load_csv"
    /\ Call("load_csv")
    /\ IF env.csv THEN Continue("read_utf8")
       ELSE Raise("load_csv", "FileNotFoundError")
    /\ UNCHANGED <<env, verified, keep_extra, df, df_in, is_valid, errors, exit_code, warned,
                   attempts, file_size, sent, i>>

\* the encoding fixes of load_csv, applied to every column of dtype object
encoding_fixes(d) == map_object_columns(d, ENCODING_FIXES)

\* load_csv after a pd.read_csv that succeeded: the encoding fixes, return df;
\* run_etl goes on to Step 2.  df_in keeps what pd.read_csv returned.
Loaded(source) ==
    /\ df_in' = source
    /\ df' = encoding_fixes(source)
    /\ Continue("transform")

\* one call pd.read_csv(csv_path, encoding=encoding)
Read(encoding, outcome) ==
    attempts' = Append(attempts, [encoding |-> encoding, outcome |-> outcome])

\* pd.read_csv(csv_path, encoding='utf-8'); except UnicodeDecodeError
ReadUtf8(sources) ==
    /\ pc = "read_utf8"
    /\ \E outcome \in ReadOutcomes :
         /\ Read("utf-8", outcome)
         /\ CASE outcome = "ok" -> \E source \in sources : Loaded(source)
              [] outcome = "UnicodeDecodeError" ->
                   Continue("read_latin1") /\ UNCHANGED <<df, df_in>>
              [] OTHER -> Raise("load_csv", outcome) /\ UNCHANGED <<df, df_in>>
    /\ UNCHANGED <<env, verified, keep_extra, executed, is_valid, errors, exit_code,
                   warned, file_size, sent, i>>

\* a latin1 attempt whose error leaves load_csv at once
ReadLatin1_Raises(sources) ==
    /\ pc = "read_latin1"
    /\ \E outcome \in ReadOutcomes :
         /\ Read("latin1", outcome)
         /\ IF outcome = "ok" THEN \E source \in sources : Loaded(source)
            ELSE Raise("load_csv", outcome) /\ UNCHANGED <<df, df_in>>
    /\ UNCHANGED <<env, verified, keep_extra, executed, is_valid, errors, exit_code,
                   warned, file_size, sent, i>>

\* pd.read_csv(csv_path, encoding='latin1'); except Exception
ReadLatin1(sources) ==
    /\ pc = "read_latin1"
    /\ \E outcome \in ReadOutcomes :
         /\ Read("latin1", outcome)
         /\ IF outcome = "ok" THEN \E source \in sources : Loaded(source)
            ELSE Continue("read_cp1252") /\ UNCHANGED <<df, df_in>>
    /\ UNCHANGED <<env, verified, keep_extra, executed, is_valid, errors, exit_code,
                   warned, file_size, sent, i>>

\* pd.read_csv(csv_path, encoding='cp1252'); except Exception: raise Exception
ReadCp1252(sources) ==
    /\ pc = "read_cp1252"
    /\ \E outcome \in ReadOutcomes :
         /\ Read("cp1252", outcome)
         /\ IF outcome = "ok" THEN \E source \in sources : Loaded(source)
            ELSE Raise("load_csv", "Exception") /\ UNCHANGED <<df, df_in>>
    /\ UNCHANGED <<env, verified, keep_extra, executed, is_valid, errors, exit_code,
                   warned, file_size, sent, i>>

\* Step 2: transform(df)
Transform ==
    /\ pc = "transform"
    /\ Call("transform")
    /\ IF apply_vba_raises(df)
       THEN Raise("transform", "ValueError") /\ UNCHANGED df
       ELSE /\ df' = transform(df)
            /\ Continue("save_to_staging")
    /\ UNCHANGED <<env, verified, keep_extra, df_in, is_valid, errors, exit_code, warned,
                   attempts, file_size, sent, i>>

\* a save_to_staging that prints its error and returns
SaveToStaging_Swallows ==
    /\ pc = "save_to_staging"
    /\ Call("save_to_staging")
    /\ \E ok \in BOOLEAN :
         /\ raised' = IF ok THEN raised
                      ELSE [by |-> "save_to_staging", exc |-> "OperationalError"]
         /\ pc' = "validate_columns"
         /\ UNCHANGED result
    /\ UNCHANGED <<env, verified, keep_extra, df, df_in, is_valid, errors, exit_code, warned,
                   attempts, file_size, sent, i>>

\* Step 3: save_to_staging(df_transformed); an error is printed and re-raised
SaveToStaging ==
    /\ pc = "save_to_staging"
    /\ Call("save_to_staging")
    /\ \E ok \in BOOLEAN :
         IF ok THEN Continue("validate_columns")
         ELSE Raise("save_to_staging", "OperationalError")
    /\ UNCHANGED <<env, verified, keep_extra, df, df_in, is_valid, errors, exit_code, warned,
                   attempts, file_size, sent, i>>

\* validate_columns whose caller ignores the flag and goes on to the reordering
ValidateColumns_GoesOn ==
    /\ pc = "validate_columns"
    /\ Call("validate_columns")
    /\ is_valid' = validate_columns(df).is_valid
    /\ errors' = validate_columns(df).errors
    /\ Continue("reorder_columns")
    /\ UNCHANGED <<env, verified, keep_extra, df, df_in, exit_code, warned, attempts,
                   file_size, sent, i>>

\* is_valid, errors = validate_columns(df_transformed); if not is_valid: return False
ValidateColumns ==
    /\ pc = "validate_columns"
    /\ Call("validate_columns")
    /\ LET v == validate_columns(df)
       IN  /\ is_valid' = v.is_valid
           /\ errors' = v.errors
           /\ IF ~v.is_valid
              THEN result' = "False" /\ pc' = "returned" /\ UNCHANGED raised
              ELSE Continue("reorder_columns")
    /\ UNCHANGED <<env, verified, keep_extra, df, df_in, exit_code, warned, attempts,
                   file_size, sent, i>>

\* df_transformed = reorder_columns(df_transformed, keep_extra=keep_extra)
ReorderColumns ==
    /\ pc = "reorder_columns"
    /\ Call("reorder_columns")
    /\ df_in' = df
    /\ df' = reorder_columns(df, <<>>, keep_extra)
    /\ pc' = "write_to_excel"
    /\ UNCHANGED <<env, verified, keep_extra, is_valid, errors, result, exit_code, raised,
                   warned, attempts, file_size, sent, i>>

-----------------------------------------------------------------------------
(* src/etl/loader.py and src/etl/uploader.py *)

\* how many whole chunks the largest spreadsheets explored hold
MaxChunks == 3

\* a threshold that still sends a file of exactly 4 MiB in one request
simple_upload_limit_inclusive == 4 * 1024 * 1024 + 1

\* if file_size < 4 * 1024 * 1024
simple_upload_limit == 4 * 1024 * 1024

\* chunk_size = 5 * 1024 * 1024
chunk_size == 5 * 1024 * 1024

\* the sizes of the uploaded file explored
FileSizes ==
    {1, simple_upload_limit - 1, simple_upload_limit, simple_upload_limit + 1}
    \cup {k * chunk_size + d : k \in 1..MaxChunks, d \in {-1, 0, 1}}

\* the sizes of the spreadsheet run_etl writes explored
WrittenSizes == {simple_upload_limit - 1, simple_upload_limit, chunk_size + 1}

\* no response at all: requests raises ConnectionError
NoResponse == [status |-> 0, json |-> FALSE]

\* the responses explored: a status, and whether the body holds the JSON
\* document the caller reads
Responses ==
    {[status |-> 200, json |-> TRUE], [status |-> 200, json |-> FALSE],
     [status |-> 304, json |-> TRUE], [status |-> 404, json |-> FALSE],
     [status |-> 503, json |-> FALSE], NoResponse}

\* a status check that lets the 5xx statuses through
raise_for_status_4xx_only(r) == r.status >= 400 /\ r.status < 500

\* the responses explored inside a whole run of run_etl
PipelineResponses ==
    {[status |-> 200, json |-> TRUE], [status |-> 200, json |-> FALSE],
     [status |-> 404, json |-> FALSE], NoResponse}

\* response.raise_for_status(): HTTPError for a 4xx or 5xx status
raise_for_status(r) == r.status >= 400 /\ r.status < 600

\* the request and the reading of its response raise nothing
NoError == "None"

\* the exception a request and the reading of its response end in;
\* wants_json: the caller reads response.json() after raise_for_status()
RequestError(r, wants_json) ==
    IF r = NoResponse THEN "ConnectionError"
    ELSE IF raise_for_status(r) THEN "HTTPError"
    ELSE IF wants_json /\ ~r.json THEN "JSONDecodeError"
    ELSE NoError

\* requests.get / requests.post / requests.put
Request(method, target, start, end, total, r) ==
    sent' = Append(sent, [method |-> method, target |-> target, start |-> start,
                          end |-> end, total |-> total, status |-> r.status])

Min(a, b) == IF a < b THEN a ELSE b

\* Step 4: write_to_excel(df_transformed); an error is printed and re-raised
WriteToExcel ==
    /\ pc = "write_to_excel"
    /\ Call("write_to_excel")
    /\ \E ok \in BOOLEAN :
         IF ok
         THEN /\ \E size \in WrittenSizes : file_size' = size
              /\ Continue("verify_excel_data")
         ELSE Raise("write_to_excel", "OSError") /\ UNCHANGED file_size
    /\ UNCHANGED <<env, verified, keep_extra, df, df_in, is_valid, errors, exit_code, warned,
                   attempts, sent, i>>

\* df = pd.read_excel(excel_path): the row and column counts it returns for
\* a sheet written from d and found as env.excel tells; <<>> if it raises
read_excel(d, found) ==
    CASE found = "written"    -> <<NRows(d), Len(d.columns)>>
      [] found = "changed"    -> <<NRows(d) + 1, Len(d.columns)>>
      [] found = "unreadable" -> <<>>

\* a verification that compares what it read with the dataset written
verify_excel_report_compares(d, found) ==
    LET shape == read_excel(d, found)
    IN  IF shape = <<>>
        THEN [said |-> "Verification failed", rows |-> -1, columns |-> -1]
        ELSE [said    |-> IF shape = <<NRows(d), Len(d.columns)>>
                          THEN "Verification successful!"
                          ELSE "Verification failed",
              rows    |-> shape[1],
              columns |-> shape[2]]

\* what verify_excel_data prints: 'Verification successful!' with the counts
\* of the dataset it read, or 'Verification failed' if reading raised
verify_excel_report(d, found) ==
    LET shape == read_excel(d, found)
    IN  IF shape = <<>>
        THEN [said |-> "Verification failed", rows |-> -1, columns |-> -1]
        ELSE [said    |-> "Verification successful!",
              rows    |-> shape[1],
              columns |-> shape[2]]

\* verify_excel_data(): what pd.read_excel returns is printed, nothing is
\* raised, nothing is returned
VerifyExcelData ==
    /\ pc = "verify_excel_data"
    /\ Call("verify_excel_data")
    /\ verified' = [verified EXCEPT !.excel = verify_excel_report(df, env.excel)]
    /\ pc' = "upload_to_sharepoint"
    /\ UNCHANGED <<env, keep_extra, df, df_in, is_valid, errors, result, exit_code,
                   raised, warned, attempts, file_size, sent, i>>

\* an upload whose exception reaches run_etl's outer handler
UploadFailed_Propagates(exc) ==
    /\ Raise("upload_to_sharepoint", exc)
    /\ UNCHANGED warned

\* except Exception as e around Step 5 in run_etl: print and go on
UploadFailed(exc) ==
    /\ warned' = Append(warned, [by |-> "upload_to_sharepoint", exc |-> exc])
    /\ pc' = "success"
    /\ UNCHANGED <<raised, result>>

\* no exception: the upload goes on at `next`
UploadContinues(next) ==
    /\ pc' = next
    /\ UNCHANGED <<warned, raised, result>>

\* Step 5: upload_to_sharepoint(), up to the choice of the strategy
UploadToSharepoint ==
    /\ pc = "upload_to_sharepoint"
    /\ Call("upload_to_sharepoint")
    /\ \E exists \in BOOLEAN :
         IF ~exists THEN UploadFailed("FileNotFoundError")
         ELSE UploadContinues(IF file_size < simple_upload_limit
                              THEN "simple_upload" ELSE "get_site_id")
    /\ UNCHANGED <<env, verified, keep_extra, df, df_in, is_valid, errors, exit_code,
                   attempts, file_size, sent, i>>

\* simple_upload(): one POST, raise_for_status(), response.json()
SimpleUpload(responses) ==
    /\ pc = "simple_upload"
    /\ \E r \in responses :
         /\ Request("POST", "Files/Add", 0, file_size - 1, file_size, r)
         /\ IF RequestError(r, TRUE) # NoError
            THEN UploadFailed(RequestError(r, TRUE))
            ELSE UploadContinues("verify_sharepoint_upload")
    /\ UNCHANGED <<env, verified, keep_extra, df, df_in, executed, is_valid, errors,
                   exit_code, attempts, file_size, i>>

\* chunked_upload(): site_id = get_site_id()
GetSiteId(responses) ==
    /\ pc = "get_site_id"
    /\ \E r \in responses :
         /\ Request("GET", "site", 0, -1, 0, r)
         /\ IF RequestError(r, TRUE) # NoError
            THEN UploadFailed(RequestError(r, TRUE))
            ELSE UploadContinues("create_session")
    /\ UNCHANGED <<env, verified, keep_extra, df, df_in, executed, is_valid, errors,
                   exit_code, attempts, file_size, i>>

\* chunked_upload(): POST createUploadSession, raise_for_status(),
\* response.json()['uploadUrl'], then range(0, file_size, chunk_size) starts
CreateSession(responses) ==
    /\ pc = "create_session"
    /\ \E r \in responses :
         /\ Request("POST", "createUploadSession", 0, -1, 0, r)
         /\ IF RequestError(r, TRUE) # NoError
            THEN UploadFailed(RequestError(r, TRUE)) /\ UNCHANGED i
            ELSE UploadContinues("chunk_loop") /\ i' = 0
    /\ UNCHANGED <<env, verified, keep_extra, df, df_in, executed, is_valid, errors,
                   exit_code, attempts, file_size>>

\* a chunk end that names the first byte after the chunk
chunk_end_exclusive(offset, size) == Min(offset + chunk_size, size)

\* chunk_end = min(i + chunk_size, file_size) - 1
chunk_end(offset, size) == Min(offset + chunk_size, size) - 1

\* the next i of range(0, file_size, chunk_size)
next_offset(offset) == offset + chunk_size

\* one pass of the loop of chunked_upload: PUT the bytes i..chunk_end,
\* raise_for_status(); after the last pass, return chunk_response.json()
UploadChunk(responses) ==
    /\ pc = "chunk_loop"
    /\ i < file_size
    /\ \E r \in responses :
         LET last == ~(next_offset(i) < file_size)
         IN  /\ Request("PUT", "uploadUrl", i, chunk_end(i, file_size), file_size, r)
             /\ IF RequestError(r, last) # NoError
                THEN UploadFailed(RequestError(r, last)) /\ UNCHANGED i
                ELSE /\ i' = next_offset(i)
                     /\ UploadContinues(IF last THEN "verify_sharepoint_upload"
                                        ELSE "chunk_loop")
    /\ UNCHANGED <<env, verified, keep_extra, df, df_in, executed, is_valid, errors,
                   exit_code, attempts, file_size>>

\* verify_sharepoint_upload(): site_id = get_site_id(); any exception is
\* printed and the function returns False
VerifySharepointUpload(responses) ==
    /\ pc = "verify_sharepoint_upload"
    /\ Call("verify_sharepoint_upload")
    /\ \E r \in responses :
         /\ Request("GET", "site", 0, -1, 0, r)
         /\ IF RequestError(r, TRUE) # NoError
            THEN /\ verified' = [verified EXCEPT !.sharepoint = "False"]
                 /\ pc' = "success"
            ELSE /\ UNCHANGED verified
                 /\ pc' = "verify_file"
    /\ UNCHANGED <<env, keep_extra, df, df_in, is_valid, errors, result, exit_code,
                   raised, warned, attempts, file_size, i>>

\* a lookup that takes every status below 400 as found
file_found_below_400(r) ==
    r # NoResponse /\ r.status < 400 /\ r.json

\* whether verify_sharepoint_upload finds the file: the GET returned, its
\* status is 200 and response.json() reads the body
file_found(r) ==
    r # NoResponse /\ r.status = 200 /\ r.json

\* verify_sharepoint_upload(): GET the item; True on status 200, else False;
\* except Exception: False
VerifyFile(responses) ==
    /\ pc = "verify_file"
    /\ \E r \in responses :
         /\ Request("GET", "item", 0, -1, 0, r)
         /\ verified' = [verified EXCEPT !.sharepoint =
                            IF file_found(r) THEN "True" ELSE "False"]
    /\ pc' = "success"
    /\ UNCHANGED <<env, keep_extra, df, df_in, executed, is_valid, errors, result,
                   exit_code, raised, warned, attempts, file_size, i>>

\* the end of run_etl's try block: print the summary, return True
Success ==
    /\ pc = "success"
    /\ result' = "True"
    /\ pc' = "returned"
    /\ UNCHANGED <<env, verified, keep_extra, df, df_in, executed, is_valid, errors, exit_code,
                   raised, warned, attempts, file_size, sent, i>>

\* main(): sys.exit(0 if success else 1)
Main ==
    /\ pc = "returned"
    /\ exit_code' = IF result = "True" THEN 0 ELSE 1
    /\ pc' = "exited"
    /\ UNCHANGED <<env, verified, keep_extra, df, df_in, executed, is_valid, errors, result,
                   raised, warned, attempts, file_size, sent, i>>

Init ==
    /\ pc = "run_etl"
    /\ keep_extra \in BOOLEAN
    /\ df = NoDataset
    /\ df_in = NoDataset
    /\ executed = <<>>
    /\ is_valid = FALSE
    /\ errors = <<>>
    /\ result = "pending"
    /\ exit_code = -1
    /\ raised = NoException
    /\ warned = <<>>
    /\ attempts = <<>>
    /\ file_size = 0
    /\ sent = <<>>
    /\ i = 0
    /\ env \in RunEnvironments
    /\ verified = NotVerified

Next ==
    \/ ValidateSettings
    \/ LoadCsv
    \/ ReadUtf8(SourceDatasets)
    \/ ReadLatin1(SourceDatasets)
    \/ ReadCp1252(SourceDatasets)
    \/ Transform
    \/ SaveToStaging
    \/ ValidateColumns
    \/ ReorderColumns
    \/ WriteToExcel
    \/ VerifyExcelData
    \/ UploadToSharepoint
    \/ SimpleUpload(PipelineResponses)
    \/ GetSiteId(PipelineResponses)
    \/ CreateSession(PipelineResponses)
    \/ UploadChunk(PipelineResponses)
    \/ VerifySharepointUpload(PipelineResponses)
    \/ VerifyFile(PipelineResponses)
    \/ Success
    \/ Main

Spec == Init /\ [][Next]_vars

-----------------------------------------------------------------------------
(* upload_to_sharepoint() on its own, for a file of any of FileSizes *)

InitUpload ==
    /\ pc = "upload_to_sharepoint"
    /\ keep_extra = FALSE
    /\ df = NoDataset
    /\ df_in = NoDataset
    /\ executed = <<>>
    /\ is_valid = FALSE
    /\ errors = <<>>
    /\ result = "pending"
    /\ exit_code = -1
    /\ raised = NoException
    /\ warned = <<>>
    /\ attempts = <<>>
    /\ file_size \in FileSizes
    /\ sent = <<>>
    /\ i = 0
    /\ env = Configured
    /\ verified = NotVerified

NextUpload ==
    \/ UploadToSharepoint
    \/ SimpleUpload(Responses)
    \/ GetSiteId(Responses)
    \/ CreateSession(Responses)
    \/ UploadChunk(Responses)

SpecUpload == InitUpload /\ [][NextUpload]_vars

-----------------------------------------------------------------------------
(* validate_columns() and reorder_columns() on their own, for any of Datasets *)

ValidateOnly ==
    /\ pc = "validate_columns"
    /\ is_valid' = validate_columns(df).is_valid
    /\ errors' = validate_columns(df).errors
    /\ pc' = "reorder_columns"
    /\ UNCHANGED <<env, verified, keep_extra, df, df_in, executed, result, exit_code, raised,
                   warned, attempts, file_size, sent, i>>

ReorderOnly ==
    /\ pc = "reorder_columns"
    /\ df_in' = df
    /\ df' = reorder_columns(df, <<>>, keep_extra)
    /\ pc' = "reordered"
    /\ UNCHANGED <<env, verified, keep_extra, executed, is_valid, errors, result, exit_code,
                   raised, warned, attempts, file_size, sent, i>>

InitValidator ==
    /\ pc = "validate_columns"
    /\ keep_extra \in BOOLEAN
    /\ df \in Datasets
    /\ df_in = NoDataset
    /\ executed = <<>>
    /\ is_valid = FALSE
    /\ errors = <<>>
    /\ result = "pending"
    /\ exit_code = -1
    /\ raised = NoException
    /\ warned = <<>>
    /\ attempts = <<>>
    /\ file_size = 0
    /\ sent = <<>>
    /\ i = 0
    /\ env = Configured
    /\ verified = NotVerified

NextValidator == ValidateOnly \/ ReorderOnly

SpecValidator == InitValidator /\ [][NextValidator]_vars

-----------------------------------------------------------------------------
(* The functions of src/etl/transformer.py on their own *)

\* the number of rows of the datasets with blank cells
MaxRows == 2

\* the number of pieces a rating text is made of, at most
MaxPieces == 2

\* the labels Q1 .. Qn
Cols(n) == [k \in 1..n |-> "Q" \o ToString(k)]

\* the datasets for the positional phase: column counts around the positions
\* it names, followed by some of the labels it names
PositionalFrames ==
    {Frame(Cols(n) \o tail) :
        n \in {1, 21, 26, 27, 28, 29, 43, 44, 45, 46, 50, 51},
        tail \in {<<>>, <<"AU">>, <<"V">>, <<"V", "AU">>, <<"AU", "AV">>,
                  <<"AH", "AO", "AT">>}}

\* the cells a column without content may hold, and one with content
BlankCells == {NaN, Str(""), Str(" \t"), Str("x")}

\* the sequences of length n over S
RECURSIVE Tuples(_, _)
Tuples(S, n) ==
    IF n = 0 THEN {<<>>}
    ELSE {Append(t, x) : t \in Tuples(S, n - 1), x \in S}

\* the datasets of two columns of up to MaxRows rows of BlankCells
BlankFrames ==
    UNION {
      {[columns |-> <<"A", "B">>,
        index   |-> [r \in 1..n |-> r - 1],
        data    |-> <<a, b>>] : a, b \in Tuples(BlankCells, n)} :
      n \in 1..MaxRows}

\* datasets of up to MaxRows rows over a few of GroupLabels, each cell a
\* value of its own or missing
GroupFrames ==
    UNION {
      {[columns |-> labels,
        index   |-> [r \in 1..n |-> r - 1],
        data    |-> [k \in DOMAIN labels |->
                       [r \in 1..n |->
                          IF <<k, r>> \in present
                          THEN Str("value" \o ToString(k) \o ToString(r))
                          ELSE NaN]]] :
          present \in SUBSET ((DOMAIN labels) \X (1..n))} :
      labels \in {SubSeq(GroupLabels, 1, 4), SubSeq(GroupLabels, 5, 7),
                  SubSeq(GroupLabels, 5, 5), SubSeq(GroupLabels, 8, 8),
                  SubSeq(GroupLabels, 7, 8)},
      n \in 1..MaxRows}

\* pieces of rating texts: sources and replacements of RATING_MAPPINGS, and
\* parts of them
Pieces ==
    {"Trè byen", "Byen", "Pasab", "Pa bon", "Pat bon ditou", "5 Etwal",
     "Trè long", "Pa", "t bon ditou", " bon", " "}

\* the texts made of up to n pieces
RECURSIVE Texts(_)
Texts(n) ==
    IF n = 0 THEN {""}
    ELSE Texts(n - 1) \cup {t \o p : t \in Texts(n - 1), p \in Pieces}

\* two-row datasets of one text column: a rating text, and a text or nothing
RatingFrames ==
    {[columns |-> <<"Rating">>,
      index   |-> <<0, 1>>,
      data    |-> <<<<Str(t), other>>>>] :
        t \in Texts(MaxPieces),
        other \in {NaN, Str("Byen"), Str("4 Etwal"), Num("4")}}

\* the dataset a function of the module is applied to
TransformerFrames ==
    PositionalFrames \cup BlankFrames \cup GroupFrames \cup RatingFrames

\* df = apply_vba_transformations(df)
ApplyVba ==
    /\ pc = "transformer"
    /\ df_in' = df
    /\ IF apply_vba_raises(df)
       THEN /\ raised' = [by |-> "apply_vba_transformations", exc |-> "ValueError"]
            /\ pc' = "raised"
            /\ UNCHANGED df
       ELSE /\ df' = apply_vba_transformations(df)
            /\ pc' = "apply_vba_transformations"
            /\ UNCHANGED raised
    /\ UNCHANGED <<env, verified, keep_extra, executed, is_valid, errors, result, exit_code,
                   warned, attempts, file_size, sent, i>>

\* df = apply_power_query_transformations(df)
ApplyPowerQuery ==
    /\ pc = "transformer"
    /\ df_in' = df
    /\ df' = apply_power_query_transformations(df)
    /\ pc' = "apply_power_query_transformations"
    /\ UNCHANGED <<env, verified, keep_extra, executed, is_valid, errors, result, exit_code,
                   raised, warned, attempts, file_size, sent, i>>

\* df = apply_rating_mappings(df), a first and a second time; i counts them
ApplyRatingMappings ==
    /\ pc \in {"transformer", "apply_rating_mappings"}
    /\ i < 2
    /\ df_in' = df
    /\ df' = apply_rating_mappings(df)
    /\ i' = i + 1
    /\ pc' = "apply_rating_mappings"
    /\ UNCHANGED <<env, verified, keep_extra, executed, is_valid, errors, result, exit_code,
                   raised, warned, attempts, file_size, sent>>

InitTransformer ==
    /\ pc = "transformer"
    /\ keep_extra = FALSE
    /\ df \in TransformerFrames
    /\ df_in = NoDataset
    /\ executed = <<>>
    /\ is_valid = FALSE
    /\ errors = <<>>
    /\ result = "pending"
    /\ exit_code = -1
    /\ raised = NoException
    /\ warned = <<>>
    /\ attempts = <<>>
    /\ file_size = 0
    /\ sent = <<>>
    /\ i = 0
    /\ env = Configured
    /\ verified = NotVerified

NextTransformer == ApplyVba \/ ApplyPowerQuery \/ ApplyRatingMappings

SpecTransformer == InitTransformer /\ [][NextTransformer]_vars

-----------------------------------------------------------------------------
(* run_etl in every environment, on one source that passes validation and *)
(* one that does not                                                       *)

EnvironmentSources == {Frame(BaseSource), Frame(SubSeq(BaseSource, 1, 3))}

InitEnvironment ==
    /\ pc = "run_etl"
    /\ keep_extra = FALSE
    /\ df = NoDataset
    /\ df_in = NoDataset
    /\ executed = <<>>
    /\ is_valid = FALSE
    /\ errors = <<>>
    /\ result = "pending"
    /\ exit_code = -1
    /\ raised = NoException
    /\ warned = <<>>
    /\ attempts = <<>>
    /\ file_size = 0
    /\ sent = <<>>
    /\ i = 0
    /\ env \in Environments
    /\ verified = NotVerified

NextEnvironment ==
    \/ ValidateSettings
    \/ LoadCsv
    \/ ReadUtf8(EnvironmentSources)
    \/ ReadLatin1(EnvironmentSources)
    \/ ReadCp1252(EnvironmentSources)
    \/ Transform
    \/ SaveToStaging
    \/ ValidateColumns
    \/ ReorderColumns
    \/ WriteToExcel
    \/ VerifyExcelData
    \/ UploadToSharepoint
    \/ SimpleUpload(PipelineResponses)
    \/ GetSiteId(PipelineResponses)
    \/ CreateSession(PipelineResponses)
    \/ UploadChunk(PipelineResponses)
    \/ VerifySharepointUpload(PipelineResponses)
    \/ VerifyFile(PipelineResponses)
    \/ Success
    \/ Main

SpecEnvironment == InitEnvironment /\ [][NextEnvironment]_vars

-----------------------------------------------------------------------------
(* Properties of run_etl and main *)

\* the order in which run_etl calls the functions of the pipeline
RunOrder ==
    <<"validate_settings", "load_csv", "transform", "save_to_staging",
      "validate_columns", "reorder_columns", "write_to_excel",
      "verify_excel_data", "upload_to_sharepoint", "verify_sharepoint_upload">>

\* validate_columns has been called and has reported the dataset invalid
ReportedInvalid == In("validate_columns", executed) /\ ~is_valid

\* C1: whenever validate_columns reports the transformed dataset invalid, the
\* run halts before writing output: write_to_excel, verify_excel_data,
\* upload_to_sharepoint and verify_sharepoint_upload are never executed, no
\* request is sent, run_etl returns False and the process exits with 1.
C1_InvalidHaltsBeforeWrite ==
    ReportedInvalid =>
        /\ \A f \in {"write_to_excel", "verify_excel_data",
                     "upload_to_sharepoint", "verify_sharepoint_upload"} :
             ~In(f, executed)
        /\ sent = <<>>
        /\ file_size = 0
        /\ pc \in {"returned", "exited"}
        /\ result = "False"
        /\ pc = "exited" => exit_code = 1

\* an invalid dataset was reported, with both kinds of error, and the process
\* has exited
C1_Witness ==
    /\ ReportedInvalid
    /\ Len(errors) = 2
    /\ executed[Len(executed)] = "validate_columns"
    /\ pc = "exited"
    /\ exit_code = 1

\* the spreadsheet write has returned without an exception
WriteSucceeded == In("verify_excel_data", executed)

\* C2: once extraction, transformation, staging, validation and the
\* spreadsheet write have succeeded, run_etl returns True (exit 0) whatever
\* upload_to_sharepoint does: an exception of the upload is only a warning and
\* never changes the result.
C2_UploadNeverFailsRun ==
    WriteSucceeded =>
        /\ raised = NoException
        /\ result # "False"
        /\ pc \in {"returned", "exited"} => result = "True"
        /\ pc = "exited" => exit_code = 0
        /\ \A k \in DOMAIN warned :
             warned[k].by = "upload_to_sharepoint" =>
                 pc \in {"success", "returned", "exited"}

\* a chunk PUT was answered 503 after an earlier chunk went through, and the
\* process has exited with 0
C2_Witness ==
    /\ WriteSucceeded
    /\ pc = "exited"
    /\ exit_code = 0
    /\ warned # <<>>
    /\ warned[Len(warned)] = [by |-> "upload_to_sharepoint", exc |-> "HTTPError"]
    /\ sent # <<>>
    /\ sent[Len(sent)].method = "PUT"
    /\ sent[Len(sent)].start > 0

\* the stages whose exception run_etl does not catch before its outer handlers
FatalStages == {"load_csv", "transform", "save_to_staging", "write_to_excel"}

\* C3: an error raised by load_csv, transform, save_to_staging or
\* write_to_excel aborts the pipeline at once: the failing stage is the last
\* function called, no function is called twice or out of order, and run_etl
\* returns False (exit 1).
C3_ErrorAborts ==
    /\ Len(executed) <= Len(RunOrder)
    /\ executed = SubSeq(RunOrder, 1, Len(executed))
    /\ raised # NoException =>
        /\ raised.by \in FatalStages
        /\ executed[Len(executed)] = raised.by
        /\ pc \in {"returned", "exited"}
        /\ result = "False"
        /\ pc = "exited" => exit_code = 1

\* write_to_excel raised and the process has exited with 1
C3_Witness ==
    /\ raised = [by |-> "write_to_excel", exc |-> "OSError"]
    /\ executed[Len(executed)] = "write_to_excel"
    /\ pc = "exited"
    /\ exit_code = 1

\* C4: for either value of keep_extra, the dataset that reaches write_to_excel
\* has the column list EXPECTED_COLUMNS exactly, in schema order, followed
\* (keep_extra true) by the unexpected columns of the validated dataset in
\* their original relative order.
C4_WrittenColumns ==
    In("reorder_columns", executed) =>
        /\ is_valid
        /\ df.columns = EXPECTED_COLUMNS
             \o (IF keep_extra THEN NotIn(df_in.columns, EXPECTED_COLUMNS)
                 ELSE <<>>)

\* a dataset whose columns came in another order was written with keep_extra
C4_Witness ==
    /\ In("write_to_excel", executed)
    /\ keep_extra
    /\ raised = NoException
    /\ Range(df_in.columns) = Range(EXPECTED_COLUMNS)
    /\ \E k \in DOMAIN df_in.columns : df_in.columns[k] # EXPECTED_COLUMNS[k]
    /\ df.columns = EXPECTED_COLUMNS

-----------------------------------------------------------------------------
(* Properties of upload_to_sharepoint *)

MiB == 1024 * 1024

\* the chunk PUT requests sent so far, in order
Puts == SelectSeq(sent, LAMBDA q : q.method = "PUT")

\* the single-request uploads sent so far
SimplePosts == SelectSeq(sent, LAMBDA q : q.target = "Files/Add")

\* upload_to_sharepoint has returned without an exception
Uploaded == pc = "verify_sharepoint_upload"

\* upload_to_sharepoint has raised
UploadRaised ==
    /\ pc = "success"
    /\ warned # <<>>
    /\ warned[Len(warned)].by = "upload_to_sharepoint"

CeilDiv(a, b) == IF a % b = 0 THEN a \div b ELSE a \div b + 1

\* C5: the strategy depends on the file size alone: a size strictly below
\* 4 MiB is sent with exactly one simple_upload request and no chunk PUT; a
\* size of 4 MiB or more is sent by chunked_upload, with exactly
\* ceil(size / 5 MiB) chunk PUT requests when the upload goes through.
C5_StrategyBySize ==
    /\ file_size < 4 * MiB =>
         /\ Puts = <<>>
         /\ sent = SimplePosts
         /\ Len(sent) <= 1
         /\ Uploaded => Len(sent) = 1
    /\ file_size >= 4 * MiB =>
         /\ SimplePosts = <<>>
         /\ Uploaded => Len(Puts) = CeilDiv(file_size, 5 * MiB)

\* a file of exactly 4 MiB went through chunked_upload in one chunk
C5_Witness ==
    /\ file_size = 4 * MiB
    /\ Uploaded
    /\ Len(Puts) = 1
    /\ SimplePosts = <<>>

\* C6: the chunk PUT requests come in strictly increasing byte order: each
\* carries total = file size, the first starts at 0, each start is the
\* previous end + 1, each chunk holds at most 5 MiB and only the last may hold
\* less, and the last chunk ends at total - 1.
C6_ChunkRanges ==
    /\ \A k \in DOMAIN Puts :
         /\ Puts[k].total = file_size
         /\ Puts[k].start = IF k = 1 THEN 0 ELSE Puts[k - 1].end + 1
         /\ Puts[k].start <= Puts[k].end
         /\ Puts[k].end <= Puts[k].total - 1
         /\ Puts[k].end - Puts[k].start + 1 <= 5 * MiB
         /\ Puts[k].end - Puts[k].start + 1 < 5 * MiB =>
              Puts[k].end = Puts[k].total - 1
    /\ \A k \in DOMAIN sent :
         sent[k].method = "PUT" /\ k < Len(sent) => sent[k + 1].method = "PUT"
    /\ Uploaded /\ file_size >= 4 * MiB =>
         /\ Puts # <<>>
         /\ Puts[Len(Puts)].end = file_size - 1

\* three chunks went through, the last one shorter than 5 MiB
C6_Witness ==
    /\ Uploaded
    /\ Len(Puts) = 3
    /\ Puts[3].end - Puts[3].start + 1 < 5 * MiB
    /\ Puts[3].end = file_size - 1

\* C7 as stated: the first request answered with a status outside 200..299
\* aborts the upload: it is the last request sent, and upload_to_sharepoint
\* raises the HTTP error.
C7_Non2xxAborts ==
    \A k \in DOMAIN sent :
        sent[k].status # NoResponse.status /\ sent[k].status \notin 200..299 =>
            /\ k = Len(sent)
            /\ UploadRaised
            /\ warned[Len(warned)].exc = "HTTPError"

\* C7: the first request answered with a 4xx or 5xx status aborts the upload:
\* no request is sent after it (no later chunk, no retry of the chunk, no
\* chunk at all after a failed site lookup or session creation) and
\* upload_to_sharepoint raises the HTTP error.
C7_ErrorStatusAborts ==
    \A k \in DOMAIN sent :
        sent[k].status \in 400..599 =>
            /\ k = Len(sent)
            /\ UploadRaised
            /\ warned[Len(warned)].exc = "HTTPError"
            /\ \A j \in 1..(k - 1) : sent[j].start # sent[k].start
                                      \/ sent[j].method # sent[k].method

\* the second chunk was answered 503 and the upload raised
C7_Witness ==
    /\ UploadRaised
    /\ Len(Puts) = 2
    /\ sent[Len(sent)].method = "PUT"
    /\ sent[Len(sent)].status = 503
    /\ warned[Len(warned)].exc = "HTTPError"

-----------------------------------------------------------------------------
(* Properties of load_csv *)

Encodings == <<"utf-8", "latin1", "cp1252">>

\* load_csv raised after it found the source file
LoadFailed == raised.by = "load_csv" /\ raised.exc # "FileNotFoundError"

\* the attempts made so far use the encodings in the fixed order, and each
\* but the last of them has raised
AttemptsInOrder ==
    /\ Len(attempts) <= Len(Encodings)
    /\ \A k \in DOMAIN attempts :
         /\ attempts[k].encoding = Encodings[k]
         /\ k < Len(attempts) => attempts[k].outcome # "ok"

\* C8 as stated: whenever the utf-8 attempt raises, for any reason, the
\* latin1 attempt is made, and an error reaches the caller only after the
\* cp1252 attempt has raised.
C8_AnyErrorFallsBack ==
    /\ AttemptsInOrder
    /\ Len(attempts) = 1 /\ attempts[1].outcome # "ok" => pc = "read_latin1"
    /\ Len(attempts) = 2 /\ attempts[2].outcome # "ok" => pc = "read_cp1252"
    /\ LoadFailed => Len(attempts) = 3 /\ attempts[3].outcome # "ok"

\* C8: for an existing source file, load_csv tries utf-8, latin1, cp1252 in
\* that order: whenever the utf-8 attempt raises UnicodeDecodeError the latin1
\* attempt is made, whenever that raises (for any reason) the cp1252 attempt
\* is made, and an error reaches the caller only after the cp1252 attempt has
\* raised or after the utf-8 attempt has raised another error than
\* UnicodeDecodeError.
C8_DecodeErrorFallsBack ==
    /\ AttemptsInOrder
    /\ Len(attempts) = 1 /\ attempts[1].outcome = "UnicodeDecodeError" =>
         pc = "read_latin1"
    /\ Len(attempts) = 2 /\ attempts[2].outcome # "ok" => pc = "read_cp1252"
    /\ LoadFailed =>
         \/ Len(attempts) = 3 /\ attempts[3].outcome # "ok"
         \/ /\ Len(attempts) = 1
            /\ attempts[1].outcome \notin {"ok", "UnicodeDecodeError"}
            /\ raised.exc = attempts[1].outcome

\* utf-8 raised UnicodeDecodeError, latin1 raised another error, cp1252
\* raised too, and the process has exited with 1
C8_Witness ==
    /\ LoadFailed
    /\ Len(attempts) = 3
    /\ attempts[1].outcome = "UnicodeDecodeError"
    /\ attempts[2].outcome = "EmptyDataError"
    /\ attempts[3].outcome # "ok"
    /\ pc = "exited"

-----------------------------------------------------------------------------
(* Properties of validate_columns *)

\* validate_columns has returned and its dataset is still in df
Validated == pc = "reorder_columns"

MissingSet == Range(EXPECTED_COLUMNS) \ Range(df.columns)

ExtraSet == Range(df.columns) \ Range(EXPECTED_COLUMNS)

\* C9: validate_columns returns True with an empty error list if and only if
\* the set of the dataset's column names equals the set of names in
\* EXPECTED_COLUMNS; the order of the columns has no part in it.
C9_ValidIffSameSet ==
    Validated =>
        /\ is_valid <=> Range(df.columns) = Range(EXPECTED_COLUMNS)
        /\ is_valid <=> errors = <<>>

\* a dataset with the expected names in reversed order was found valid
C9_Witness ==
    /\ Validated
    /\ is_valid
    /\ errors = <<>>
    /\ Len(df.columns) > 1
    /\ df.columns[1] = EXPECTED_COLUMNS[Len(EXPECTED_COLUMNS)]
    /\ df.columns # EXPECTED_COLUMNS

HasPrefix(s, p) == Len(s) >= Len(p) /\ SubSeq(s, 1, Len(p)) = p

\* the positions of the quote characters of s
Quotes(s) == {k \in 1..Len(s) : SubSeq(s, k, k) = "'"}

\* the names an error entry lists: the texts between the 1st and 2nd quote,
\* the 3rd and 4th, and so on
ListedColumns(entry) ==
    LET q == Quotes(entry)
        nth(n) == CHOOSE k \in q : Cardinality({j \in q : j < k}) = n - 1
    IN  {SubSeq(entry, nth(2 * m - 1) + 1, nth(2 * m) - 1) :
           m \in 1..(Cardinality(q) \div 2)}

MissingEntries == SelectSeq(errors, LAMBDA e : HasPrefix(e, "Missing columns: "))

UnexpectedEntries ==
    SelectSeq(errors, LAMBDA e : HasPrefix(e, "Unexpected columns found: "))

\* C10: validate_columns returns one error entry per direction of mismatch:
\* two distinct entries when expected columns are missing and unexpected ones
\* are present, one entry for a mismatch in one direction; the entry for the
\* missing columns lists only missing columns, the one for the unexpected
\* columns only unexpected ones, and no name is in both.
C10_OneEntryPerDirection ==
    Validated =>
        /\ Len(MissingEntries) = (IF MissingSet # {} THEN 1 ELSE 0)
        /\ Len(UnexpectedEntries) = (IF ExtraSet # {} THEN 1 ELSE 0)
        /\ Len(errors) = Len(MissingEntries) + Len(UnexpectedEntries)
        /\ errors # <<>> => ~is_valid
        /\ \A k \in DOMAIN MissingEntries :
             ListedColumns(MissingEntries[k]) = MissingSet
        /\ \A k \in DOMAIN UnexpectedEntries :
             ListedColumns(UnexpectedEntries[k]) = ExtraSet
        /\ \A j, k \in DOMAIN errors :
             j # k => /\ errors[j] # errors[k]
                      /\ ListedColumns(errors[j]) \cap ListedColumns(errors[k]) = {}

\* a dataset without two expected columns and with two foreign ones got two
\* entries
C10_Witness ==
    /\ Validated
    /\ ~is_valid
    /\ Len(errors) = 2
    /\ Cardinality(MissingSet) = 2
    /\ Cardinality(ExtraSet) = 2
    /\ ListedColumns(errors[1]) = MissingSet
    /\ ListedColumns(errors[2]) = ExtraSet

-----------------------------------------------------------------------------
(* Properties of reorder_columns *)

\* reorder_columns has returned: df_in is its argument, df its result
ReorderReturned == pc = "reordered"

\* the argument holds exactly the expected names, each once
ExactlyExpected ==
    /\ Range(df_in.columns) = Range(EXPECTED_COLUMNS)
    /\ Cardinality(Range(df_in.columns)) = Len(df_in.columns)

\* the k-th column of the result holds the values the argument has under
\* the same name
SameValues(k) ==
    \E j \in DOMAIN df_in.columns :
        /\ df_in.columns[j] = df.columns[k]
        /\ df.data[k] = df_in.data[j]

\* C11: reorder_columns with keep_extra=False, on a dataset holding exactly
\* the expected columns in any order, returns the column list
\* EXPECTED_COLUMNS in that order, with the same rows in the same order and,
\* under every name, the values the dataset had under it.
C11_ReorderExact ==
    ReorderReturned /\ ~keep_extra /\ ExactlyExpected =>
        /\ df.columns = EXPECTED_COLUMNS
        /\ df.index = df_in.index
        /\ \A k \in DOMAIN df.columns :
             /\ Len(df.data[k]) = NRows(df_in)
             /\ SameValues(k)

\* a two-row dataset with the expected columns in reversed order was reordered
C11_Witness ==
    /\ ReorderReturned
    /\ ~keep_extra
    /\ ExactlyExpected
    /\ NRows(df_in) = 2
    /\ df_in.columns[1] = EXPECTED_COLUMNS[Len(EXPECTED_COLUMNS)]
    /\ df.columns = EXPECTED_COLUMNS
    /\ df.data[1] = df_in.data[Len(df_in.columns)]

\* the columns of the argument that are in the schema, in schema order
PresentExpected ==
    SelectSeq(Unique(EXPECTED_COLUMNS), LAMBDA c : c \in Range(df_in.columns))

\* the columns of the argument that are not in the schema, in their order
ExtraColumns ==
    SelectSeq(df_in.columns, LAMBDA c : c \notin Range(EXPECTED_COLUMNS))

\* C12: reorder_columns, on a dataset with N columns of the schema and M
\* others, returns with keep_extra=True exactly N + M columns, the N in schema
\* order and then the M in their original relative order, and with
\* keep_extra=False the N columns alone.
C12_ReorderCounts ==
    ReorderReturned =>
        /\ Len(df.columns) = Len(PresentExpected)
                             + (IF keep_extra THEN Len(ExtraColumns) ELSE 0)
        /\ df.columns = PresentExpected
                        \o (IF keep_extra THEN ExtraColumns ELSE <<>>)
        /\ \A k \in DOMAIN df.columns : SameValues(k)

-----------------------------------------------------------------------------
(* Properties of the functions of src/etl/transformer.py *)

\* apply_vba_transformations was applied to df_in and returned df
VbaReturned == pc = "apply_vba_transformations"

\* apply_vba_transformations was applied to df_in and raised
VbaRaised == pc = "raised" /\ raised.by = "apply_vba_transformations"

\* C13: apply_vba_transformations signals no error, whatever the column
\* layout of the dataset it is given: no call of it ends in an exception.
C13_VbaNeverRaises == ~VbaRaised


\* every value of the column is null or an empty or whitespace-only string
EntirelyEmpty(col) ==
    \A r \in DOMAIN col :
        col[r].t = "nan" \/ (col[r].t = "str" /\ Strip(col[r].s) = "")

\* no step of the positional phase but the removal of empty columns applies
\* to the dataset: it has no position 26 and none of the labels the phase names
OnlyEmptyRemoval(d) ==
    /\ Len(d.columns) <= 26
    /\ Range(d.columns) \cap {"AU", "AV", "V", "AH", "AO", "AT"} = {}

\* C14: in the positional phase a column is removed if and only if it is
\* entirely empty: every value of it is null or an empty or whitespace-only
\* string, columns mixing null cells with blank strings included.
C14_RemovedIffEntirelyEmpty ==
    (VbaReturned /\ OnlyEmptyRemoval(df_in)) =>
        \A k \in DOMAIN df_in.columns :
            NotIn(<<df_in.columns[k]>>, df.columns) # <<>>
                <=> EntirelyEmpty(df_in.data[k])


\* apply_power_query_transformations was applied to df_in and returned df
PowerQueryReturned == pc = "apply_power_query_transformations"

\* the combined columns and, for each, the source columns of df_in it is
\* made of
CombinedColumns ==
    <<<<"Hospital_Combined", hospital_cols(df_in)>>,
      <<"Satisfaction_Combined", satisfaction_cols(df_in)>>,
      <<"Dissatisfaction_Combined", dissatisfaction_cols(df_in)>>,
      <<"Mistreatment_Combined", mistreatment_cols(df_in)>>>>

\* the row of df_in that the r-th row of df comes from
SourceRow(r) == CHOOSE q \in DOMAIN df_in.index : df_in.index[q] = df.index[r]

\* the texts of the non-null cells of the row q of df_in in the columns cols,
\* in the order of cols
RECURSIVE NonNull(_, _)
NonNull(cols, q) ==
    IF cols = <<>> THEN <<>>
    ELSE LET cell == df_in.data[Loc(df_in.columns, cols[1])][q]
         IN  (IF cell.t = "nan" THEN <<>> ELSE <<cell.s>>)
             \o NonNull(Tail(cols), q)

\* C15: each combined column holds, for every row, the non-null values of
\* that row across the matched source columns, in column order, joined with
\* '; ', null cells skipped; a row without a non-null value holds ''.
C15_CombinedJoinsNonNull ==
    PowerQueryReturned =>
        \A g \in DOMAIN CombinedColumns :
            LET label == CombinedColumns[g][1]
                cols  == CombinedColumns[g][2]
            IN  cols # <<>> =>
                  /\ In(label, df.columns)
                  /\ \A r \in DOMAIN df.index :
                        LET values == NonNull(cols, SourceRow(r))
                            cell   == df.data[Loc(df.columns, label)][r]
                        IN  /\ cell.t = "str"
                            /\ cell.s = Join(values, "; ")
                            /\ values = <<>> => cell.s = ""

\* a row with values in 2 of 4 matched columns was combined into
\* 'valueA; valueB', and a row of 4 null cells into ''
C15_Witness ==
    /\ PowerQueryReturned
    /\ Len(hospital_cols(df_in)) = 4
    /\ Len(df.index) = 2
    /\ In("Hospital_Combined", df.columns)
    /\ df.data[Loc(df.columns, "Hospital_Combined")]
         = <<Str("value21; value41"), Str("")>>

-----------------------------------------------------------------------------
(* Properties of the run from load_csv to save_to_staging *)

\* save_to_staging has just stored df; df_in is what pd.read_csv returned
Staged == pc = "validate_columns"

\* the identifier is neither null nor blank after trimming
HasIdentifier(cell) == cell.t # "nan" /\ Strip(cell.s) # ""

\* the index labels of the rows of the source whose Respondent ID is neither
\* null nor blank, in their order
RowsWithIdentifier ==
    LET ids  == df_in.data[Loc(df_in.columns, "Respondent ID")]
        rows == Where([r \in DOMAIN ids |-> HasIdentifier(ids[r])])
    IN  [r \in DOMAIN rows |-> df_in.index[rows[r]]]

\* C16: from load_csv through transform to save_to_staging, for a source
\* with a 'Respondent ID' column, the staged table holds exactly the rows
\* whose Respondent ID is neither null nor blank after trimming, in their
\* order, whether the identifiers are numeric or text.
C16_StagedRowsHaveIdentifier ==
    (Staged /\ In("Respondent ID", df_in.columns)) =>
        df.index = RowsWithIdentifier


\* apply_rating_mappings was applied to df_in and returned df; i counts the
\* applications so far, each to the result of the one before
RatingsReturned == pc = "apply_rating_mappings"

\* the labels RATING_MAPPINGS maps to
NormalizedLabels == {RATING_MAPPINGS[k][2] : k \in DOMAIN RATING_MAPPINGS}

\* every cell of the dataset is a text that is one of the normalized labels
OnlyNormalized(d) ==
    \A k \in DOMAIN d.data : \A r \in DOMAIN d.data[k] :
        d.data[k][r].t = "str" /\ d.data[k][r].s \in NormalizedLabels

\* C17: apply_rating_mappings is idempotent: applied to its own result, it
\* changes no cell; and a pass leaves unchanged a dataset whose text columns
\* hold only normalized labels.
C17_RatingMappingsIdempotent ==
    /\ (RatingsReturned /\ i = 2) => df = df_in
    /\ (RatingsReturned /\ OnlyNormalized(df_in)) => df = df_in

\* a second pass over a column in which the first pass had replaced two
\* ratings and turned a null cell into text
C17_Witness ==
    /\ RatingsReturned
    /\ i = 2
    /\ df.columns = <<"Rating">>
    /\ df.data[1] = <<Str("5 Etwal4 Etwal"), Str("nan")>>

-----------------------------------------------------------------------------
(* Properties of Step 0 and of the verification functions *)

\* the environment holds an error that validate_settings looks for
SettingsErrors == validate_settings(env) # <<>>

\* run_etl printed the ValueError of validate_settings as a warning
SettingsWarned ==
    \E k \in DOMAIN warned : warned[k].by = "validate_settings"

\* run_etl has returned
Returned == pc = "returned"

\* load_csv found no input file
MissingInput == [by |-> "load_csv", exc |-> "FileNotFoundError"]

\* C18 as stated: the errors validate_settings finds (missing input file,
\* missing data or output directory, unconfigured site or credential) never
\* halt the run: whatever their combination, run_etl goes on to the later
\* stages and they do not make its result False.
C18_SettingsErrorsNeverHalt ==
    (Returned /\ SettingsErrors) =>
        /\ SettingsWarned
        /\ In("load_csv", executed)
        /\ raised.by # "validate_settings"
        /\ raised # MissingInput

\* C18: the errors validate_settings finds are printed as a warning and
\* run_etl goes on to load_csv whatever their combination; of these
\* errors only the missing input file ends the run, in load_csv, with the
\* result False; with the input file present the file is read.
C18_OnlyMissingInputHalts ==
    (Returned /\ SettingsErrors) =>
        /\ SettingsWarned
        /\ In("load_csv", executed)
        /\ raised.by # "validate_settings"
        /\ env.csv => (raised # MissingInput /\ attempts # <<>>)
        /\ ~env.csv => (raised = MissingInput /\ result = "False")

\* a run that found the output directory missing and SharePoint left
\* unconfigured, and returned True
C18_Witness ==
    /\ Returned
    /\ SettingsWarned
    /\ Len(validate_settings(env)) = 3
    /\ env.csv
    /\ result = "True"

\* the spreadsheet was re-read by verify_excel_data
ExcelVerified == verified.excel.said # ""

\* the counts verify_excel_data read differ from those of the dataset written
CountsDiffer ==
    <<verified.excel.rows, verified.excel.columns>> # <<NRows(df), Len(df.columns)>>

\* C19: the verification passes are best-effort and never fatal:
\* verify_excel_data reports a mismatch when the row or column count it
\* reads back differs from what was written, verify_sharepoint_upload
\* returns True only on a 200 response and False otherwise, neither raises,
\* and neither changes the result of run_etl.
C19_VerificationReports ==
    /\ (ExcelVerified /\ CountsDiffer) =>
            verified.excel.said # "Verification successful!"
    /\ verified.sharepoint = "True" =>
            /\ sent[Len(sent)].target = "item"
            /\ sent[Len(sent)].status = 200
    /\ (pc = "success" /\ In("verify_sharepoint_upload", executed)) =>
            verified.sharepoint \in {"True", "False"}
    /\ raised.by \notin {"verify_excel_data", "verify_sharepoint_upload"}
    /\ (Returned /\ In("verify_excel_data", executed)) => result = "True"

-----------------------------------------------------------------------------
(* The combined columns of apply_power_query_transformations *)

\* how many columns of d carry the label
Count(d, label) == Cardinality({k \in DOMAIN d.columns : d.columns[k] = label})

\* C20: apply_power_query_transformations produces exactly one new combined
\* column for each of the four question groups, for every input dataset,
\* datasets in which no column name matches a group included.
C20_OneCombinedPerGroup ==
    (PowerQueryReturned /\ Range(df_in.columns) \cap Combined = {}) =>
        \A label \in Combined : Count(df, label) = 1

-----------------------------------------------------------------------------
(* The block relocations of apply_vba_transformations *)

\* of the steps of the positional phase only the deletion of position 28 and
\* the two relocations can apply to the dataset: its labels are unique, none
\* is a label the later steps name, and no column is without content
OnlyPositional(d) ==
    /\ Cardinality(Range(d.columns)) = Len(d.columns)
    /\ Range(d.columns) \cap {"AU", "AV", "V", "AH", "AO", "AT"} = {}
    /\ \A k \in DOMAIN d.data : ~EntirelyEmpty(d.data[k])

\* the list without its element at the 0-based position p, if it has one
Without(lst, p) ==
    IF Len(lst) > p
    THEN SubSeq(lst, 1, p) \o SubSeq(lst, p + 2, Len(lst))
    ELSE lst

\* the list with the elements at the 0-based positions first..last moved to
\* its end
Relocated(lst, first, last) ==
    SubSeq(lst, 1, first) \o SubSeq(lst, last + 2, Len(lst))
    \o SubSeq(lst, first + 1, last + 1)

\* the order in which the first relocation finds the columns of df_in, and
\* the orders it and the second relocation leave
BeforeRelocations == Without(df_in.columns, 28)

AfterFirst ==
    IF Len(BeforeRelocations) >= 27
    THEN Relocated(BeforeRelocations, 21, 26) ELSE BeforeRelocations

AfterSecond ==
    IF Len(AfterFirst) >= 44 THEN Relocated(AfterFirst, 35, 43) ELSE AfterFirst

\* the labels of lst that are in S, in the order of lst
Restricted(lst, S) == SelectSeq(lst, LAMBDA c : c \in S)

\* the labels the two relocations move
FirstBlock ==
    IF Len(BeforeRelocations) >= 27
    THEN Range(SubSeq(BeforeRelocations, 22, 27)) ELSE {}

SecondBlock ==
    IF Len(AfterFirst) >= 44 THEN Range(SubSeq(AfterFirst, 36, 44)) ELSE {}

\* the relocations run where they are claimed to, move the positions they
\* are claimed to, and only permute: the set of columns is unchanged, the
\* columns not moved keep their relative order, every column keeps its values
RelocationsPermute ==
    /\ df.columns = AfterSecond
    /\ Range(df.columns) = Range(BeforeRelocations)
    /\ Len(df.columns) = Len(BeforeRelocations)
    /\ LET still == Range(BeforeRelocations) \ (FirstBlock \cup SecondBlock)
       IN  Restricted(df.columns, still) = Restricted(BeforeRelocations, still)
    /\ \A k \in DOMAIN df.columns :
          df.data[k] = df_in.data[Loc(df_in.columns, df.columns[k])]

\* the columns of the first block are, after both relocations, in the order
\* they had before
FirstBlockInOrder ==
    Restricted(df.columns, FirstBlock) = Restricted(BeforeRelocations, FirstBlock)

\* the columns of the second block are, after both relocations, in the order
\* the first relocation left them in
SecondBlockInOrder ==
    Restricted(df.columns, SecondBlock) = Restricted(AfterFirst, SecondBlock)

\* C21 as stated: the two block relocations only permute columns; the first
\* runs iff the column count is at least 27 and moves the columns at
\* positions 21-26 to the end, the second runs iff the count is at least 44
\* and moves the columns at positions 35-43 of the order left by the
\* deletion of position 28 and the first relocation; after both, the set of
\* columns is unchanged, the columns not moved keep their relative order,
\* and each moved block keeps its internal order.
C21_BlocksKeepOrder ==
    (VbaReturned /\ OnlyPositional(df_in)) =>
        /\ RelocationsPermute
        /\ FirstBlockInOrder
        /\ SecondBlockInOrder

\* C21: the two block relocations only permute columns, at the counts and
\* positions stated; after both, the set of columns is unchanged, the
\* columns not moved keep their relative order, and the second block keeps
\* its internal order.  The first block keeps its internal order unless the
\* second relocation takes a part of it and leaves the rest, which it does
\* when it finds 45 to 49 columns.
C21_RelocationsPermute ==
    (VbaReturned /\ OnlyPositional(df_in)) =>
        /\ RelocationsPermute
        /\ SecondBlockInOrder
        /\ FirstBlockInOrder <=> Len(AfterFirst) \notin 45..49

\* a dataset of 46 columns: position 28 was deleted, the first relocation put
\* Q22..Q27 at the end, and the second moved Q43..Q46 and Q22..Q26 behind Q27
C21_Witness ==
    /\ VbaReturned
    /\ df_in.columns = Cols(46)
    /\ Len(df.columns) = 45
    /\ SubSeq(df.columns, 35, 37) = <<"Q42", "Q27", "Q43">>
    /\ SubSeq(df.columns, 40, 45) = <<"Q46", "Q22", "Q23", "Q24", "Q25", "Q26">>

-----------------------------------------------------------------------------
(* The frame of the substring replacement stages *)

\* load_csv has just returned df; df_in is what pd.read_csv returned
LoadCsvReturned == pc = "transform"

\* transform has just returned df; df_in is what pd.read_csv returned
TransformReturned == pc = "save_to_staging"

\* the text holds a source substring of one of the replacement tables
HasSource(s) ==
    \E m \in Range(ENCODING_FIXES) \cup Range(RATING_MAPPINGS)
             \cup Range(TEXT_STANDARDIZATION) : Contains(s, m[1])

\* the cell the dataset d holds for the cell of df_in in column k and row r:
\* the one with the same label and the same index label, if d has such a cell
Kept(d, k, r) ==
    /\ In(df_in.columns[k], d.columns)
    /\ \E q \in DOMAIN d.index : d.index[q] = df_in.index[r]

Later(d, k, r) ==
    d.data[Loc(d.columns, df_in.columns[k])]
          [CHOOSE q \in DOMAIN d.index : d.index[q] = df_in.index[r]]

\* a null cell is still null, and a text without source substring keeps its
\* value, in every cell of df_in that df still holds
OnlyMappedTextChanged ==
    \A k \in DOMAIN df_in.columns : \A r \in DOMAIN df_in.index :
        Kept(df, k, r) =>
            LET before == df_in.data[k][r]
            IN  /\ before.t = "nan" => Later(df, k, r) = NaN
                /\ (before.t = "str" /\ ~HasSource(before.s)) =>
                        Later(df, k, r) = before

\* C22: the substring replacement stages (the encoding fixes of load_csv,
\* apply_rating_mappings, apply_text_standardization) change only text cells
\* that hold a mapped source substring: a null cell of a text column is
\* still null after load_csv and after transform, and a text cell without a
\* source substring keeps its value.
C22_OnlyMappedTextChanged ==
    (LoadCsvReturned \/ TransformReturned) =>
        (Cardinality(Range(df_in.columns)) = Len(df_in.columns)
            => OnlyMappedTextChanged)

-----------------------------------------------------------------------------
(* Uniqueness of the column names reorder_columns returns *)

\* the column names of the dataset are unique
UniqueNames(d) == Cardinality(Range(d.columns)) = Len(d.columns)

\* C23: reorder_columns with the default expected schema never duplicates a
\* column: for every dataset with unique column names, the result has
\* unique column names and at most as many columns as the dataset, each
\* column of the dataset appearing at most once in it.
C23_NoDuplicateColumn ==
    (ReorderReturned /\ UniqueNames(df_in)) =>
        /\ UniqueNames(df)
        /\ Len(df.columns) <= Len(df_in.columns)
        /\ \A j \in DOMAIN df_in.columns : Count(df, df_in.columns[j]) <= 1

=============================================================================
